---- MODULE Spec2Model ----
(***************************************************************************)
(* Model of ase.py: AwsSecurityEnumerator, a wrapper over the boto SDK     *)
(* that enumerates instances, load balancers, security groups and          *)
(* instance maintenance events over several accounts and regions.          *)
(*                                                                         *)
(* The enumerator holds one field, config.  Every public method is one     *)
(* action.  The SDK is the environment: `cloud` is what it would answer,   *)
(* and each call of a method may have one of its SDK calls fail (failAt is *)
(* the ordinal of the failing call, 0 for none; a failure always aborts    *)
(* the method, so a second failure cannot be reached).  `calls` logs the   *)
(* SDK calls the last method issued and `outcome` is what the caller got.  *)
(***************************************************************************)
EXTENDS Integers, Sequences, FiniteSets, TLC

VARIABLES config, cloud, op, arg, outcome, calls

vars == <<config, cloud, op, arg, outcome, calls>>

(* ------------------------------ bounds --------------------------------- *)
MaxAccounts == 2
MaxRegions == 2

(* ----------------------------- strings --------------------------------- *)
\* Strings on which the code computes (account names, event descriptions)
\* are sequences of one-character strings.
UpperChars == <<"A", "B", "C", "D", "E", "F">>
LowerChars == <<"a", "b", "c", "d", "e", "f">>

\* str.lower() on one character
LowerChar(c) ==
  IF \E i \in 1..Len(UpperChars) : UpperChars[i] = c
    THEN LowerChars[CHOOSE i \in 1..Len(UpperChars) : UpperChars[i] = c]
    ELSE c

\* str.lower()
Lower(s) == [i \in 1..Len(s) |-> LowerChar(s[i])]

\* a slip of `sub in s`: s.startswith(sub)
ContainsAtStart(sub, s) ==
  Len(sub) <= Len(s) /\ SubSeq(s, 1, Len(sub)) = sub

\* Python's `sub in s` on strings
Contains(sub, s) ==
  \E i \in 1..(Len(s) - Len(sub) + 1) : SubSeq(s, i, i + Len(sub) - 1) = sub

\* the literal '[Completed]'
CompletedMarker == <<"[", "C", "o", "m", "p", "l", "e", "t", "e", "d", "]">>

(* ------------------------ results of a method -------------------------- *)
\* A method either returns a value or raises; log is the SDK call log so far.
Ret(v, log) ==
  [kind |-> "return", value |-> v, exc |-> "", msg |-> "", log |-> log]

Raise(exc, msg, log) ==
  [kind |-> "raise", value |-> <<>>, exc |-> exc, msg |-> msg, log |-> log]

\* ASEException(msg)
ASEException(msg, log) == Raise("ASEException", msg, log)

(* ------------------------------ the SDK -------------------------------- *)
\* One call of the SDK: logged with its credentials and region; it fails iff
\* it is the failAt-th call of the running method.  acct is the position of
\* the account an all-accounts method was enumerating (0: single account).
SdkCall(api, key, secret, region, log, failAt) ==
  Append(log, [api |-> api, key |-> key, secret |-> secret, region |-> region,
               ok |-> (Len(log) + 1 # failAt), acct |-> 0])

LastOk(log) == log[Len(log)].ok

\* what the SDK holds for the region a connection is bound to
RegionData(ec2) ==
  LET rs == cloud[ec2.key]
  IN rs[CHOOSE i \in 1..Len(rs) : rs[i].name = ec2.region]

\* ec2.get_all_reservations(): reservations, each with its instances; an
\* instance carries the region of the connection that listed it
SdkReservations(ec2) ==
  LET rv == RegionData(ec2).reservations
  IN [j \in 1..Len(rv) |->
       [instances |-> [k \in 1..Len(rv[j]) |->
          [id |-> rv[j][k].id, tags |-> rv[j][k].tags, region |-> ec2.region]]]]

(* --------------------------- the enumerator ---------------------------- *)
\* a local variable: v is computed once and named in what follows
Bind(v, F(_)) == F(v)

\* get_all_aws_accounts
get_all_aws_accounts == config

RECURSIVE ScanAccounts(_, _, _)
ScanAccounts(accounts, i, account_name) ==
  IF i > Len(accounts)
    THEN [found |-> FALSE, access_key |-> "", secret_key |-> ""]
  ELSE IF accounts[i].name = Lower(account_name)
    THEN [found |-> TRUE, access_key |-> accounts[i].key,
          secret_key |-> accounts[i].secret]
  ELSE ScanAccounts(accounts, i + 1, account_name)

\* get_account_api_creds: no SDK call
get_account_api_creds(account_name, log) ==
  Bind(ScanAccounts(config, 1, account_name),
       LAMBDA r :
         IF r.found
           THEN Ret([access_key |-> r.access_key, secret_key |-> r.secret_key],
                    log)
           ELSE ASEException("Cannot obtain credentials for specified account",
                             log))


\* the regions ec2.get_all_regions() answers for an access key
SdkRegions(access_key) ==
  [j \in 1..Len(cloud[access_key]) |-> [name |-> cloud[access_key][j].name]]

\* the loop of __ec2_connect_all_regions: one region.connect per region
RECURSIVE ConnectRegions(_, _, _, _, _, _)
ConnectRegions(regions, i, ec2s, creds, log, failAt) ==
  IF i > Len(regions) THEN [ok |-> TRUE, value |-> ec2s, log |-> log]
  ELSE Bind(SdkCall("region.connect", creds.access_key, creds.secret_key,
                    regions[i].name, log, failAt),
            LAMBDA l :
              IF ~LastOk(l) THEN [ok |-> FALSE, value |-> <<>>, log |-> l]
              ELSE ConnectRegions(regions, i + 1,
                     Append(ec2s, [key |-> creds.access_key,
                                   region |-> regions[i].name]),
                     creds, l, failAt))

\* the try block of __ec2_connect_all_regions
ConnectAll(creds, log, failAt) ==
  Bind(SdkCall("connect_ec2", creds.access_key, creds.secret_key, "", log,
               failAt),
       LAMBDA l1 :
         IF ~LastOk(l1) THEN ASEException("Cannot connect to ec2 region", l1)
         ELSE
           Bind(SdkCall("get_all_regions", creds.access_key, creds.secret_key,
                        "", l1, failAt),
                LAMBDA l2 :
                  IF ~LastOk(l2)
                    THEN ASEException("Cannot connect to ec2 region", l2)
                  ELSE
                    Bind(ConnectRegions(SdkRegions(creds.access_key), 1, <<>>,
                                        creds, l2, failAt),
                         LAMBDA r :
                           IF ~r.ok
                             THEN ASEException("Cannot connect to ec2 region",
                                               r.log)
                             ELSE Ret(r.value, r.log))))

\* a slip of __ec2_connect_all_regions: the default connection is opened
\* before the credentials are looked up
ec2_connect_all_regions_connect_first(account_name, log, failAt) ==
  Bind(SdkCall("connect_ec2", "", "", "", log, failAt),
       LAMBDA l0 :
         IF ~LastOk(l0) THEN ASEException("Cannot connect to ec2 region", l0)
         ELSE Bind(get_account_api_creds(account_name, l0),
                   LAMBDA c :
                     IF c.kind = "raise" THEN c
                     ELSE ConnectAll(c.value, l0, failAt)))

\* __ec2_connect_all_regions: the credential lookup is outside the try
ec2_connect_all_regions(account_name, log, failAt) ==
  Bind(get_account_api_creds(account_name, log),
       LAMBDA c : IF c.kind = "raise" THEN c
                  ELSE ConnectAll(c.value, log, failAt))

\* the outer loop of get_instances_for_account: res_list over all regions
RECURSIVE ReservationsLoop(_, _, _, _, _)
ReservationsLoop(ec2s, i, res_list, log, failAt) ==
  IF i > Len(ec2s) THEN [ok |-> TRUE, value |-> res_list, log |-> log]
  ELSE Bind(SdkCall("get_all_reservations", ec2s[i].key, "", ec2s[i].region,
                    log, failAt),
            LAMBDA l :
              IF ~LastOk(l) THEN [ok |-> FALSE, value |-> res_list, log |-> l]
              ELSE ReservationsLoop(ec2s, i + 1,
                                    res_list \o SdkReservations(ec2s[i]), l,
                                    failAt))

\* [i for r in res_list for i in r.instances]
RECURSIVE FlattenInstances(_)
FlattenInstances(res_list) ==
  IF res_list = <<>> THEN <<>>
  ELSE Head(res_list).instances \o FlattenInstances(Tail(res_list))

\* a slip of get_instances_for_account: the except returns what was collected
get_instances_for_account_partial(account_name, log, failAt) ==
  Bind(ec2_connect_all_regions(account_name, log, failAt),
       LAMBDA c :
         IF c.kind = "raise"
           THEN ASEException("Cannot get instances for named account", c.log)
           ELSE Bind(ReservationsLoop(c.value, 1, <<>>, c.log, failAt),
                     LAMBDA r : Ret(FlattenInstances(r.value), r.log)))

\* get_instances_for_account: everything is inside the try
get_instances_for_account(account_name, log, failAt) ==
  Bind(ec2_connect_all_regions(account_name, log, failAt),
       LAMBDA c :
         IF c.kind = "raise"
           THEN ASEException("Cannot get instances for named account", c.log)
           ELSE Bind(ReservationsLoop(c.value, 1, <<>>, c.log, failAt),
                     LAMBDA r :
                       IF ~r.ok
                         THEN ASEException(
                                "Cannot get instances for named account", r.log)
                         ELSE Ret(FlattenInstances(r.value), r.log)))

\* the SDK calls a per-account method added to the log, marked with the
\* position of the account the all-accounts loop was at
MarkAccount(before, after, i) ==
  before \o [j \in 1..(Len(after) - Len(before)) |->
              [after[Len(before) + j] EXCEPT !.acct = i]]

\* [i['name'] for i in self.get_all_aws_accounts()]
AccountNames == [i \in 1..Len(get_all_aws_accounts) |-> get_all_aws_accounts[i].name]

\* a slip of the loop of get_all_instances: results = new + results
RECURSIVE AllInstancesLoop_prepend(_, _, _, _, _)
AllInstancesLoop_prepend(accounts, i, results, log, failAt) ==
  IF i > Len(accounts) THEN [ok |-> TRUE, value |-> results, log |-> log]
  ELSE Bind(get_instances_for_account(accounts[i], log, failAt),
            LAMBDA r :
              IF r.kind = "raise"
                THEN [ok |-> FALSE, value |-> results,
                      log |-> MarkAccount(log, r.log, i)]
                ELSE AllInstancesLoop_prepend(accounts, i + 1,
                       r.value \o results, MarkAccount(log, r.log, i), failAt))

\* the loop of get_all_instances
RECURSIVE AllInstancesLoop(_, _, _, _, _)
AllInstancesLoop(accounts, i, results, log, failAt) ==
  IF i > Len(accounts) THEN [ok |-> TRUE, value |-> results, log |-> log]
  ELSE Bind(get_instances_for_account(accounts[i], log, failAt),
            LAMBDA r :
              IF r.kind = "raise"
                THEN [ok |-> FALSE, value |-> results,
                      log |-> MarkAccount(log, r.log, i)]
                ELSE AllInstancesLoop(accounts, i + 1, results \o r.value,
                                      MarkAccount(log, r.log, i), failAt))

\* get_all_instances
get_all_instances(log, failAt) ==
  Bind(AllInstancesLoop(AccountNames, 1, <<>>, log, failAt),
       LAMBDA r : IF ~r.ok THEN ASEException("Cannot get all instances", r.log)
                  ELSE Ret(r.value, r.log))

\* the loop of get_elbs_for_account: connect_to_region, then the listing
RECURSIVE ElbLoop(_, _, _, _, _, _)
ElbLoop(regions, i, elb_hosts, creds, log, failAt) ==
  IF i > Len(regions) THEN [ok |-> TRUE, value |-> elb_hosts, log |-> log]
  ELSE
    Bind(SdkCall("elb.connect_to_region", creds.access_key, creds.secret_key,
                 regions[i].name, log, failAt),
         LAMBDA l1 :
           IF ~LastOk(l1) THEN [ok |-> FALSE, value |-> elb_hosts, log |-> l1]
           ELSE
             Bind(SdkCall("get_all_load_balancers", creds.access_key,
                          creds.secret_key, regions[i].name, l1, failAt),
                  LAMBDA l2 :
                    IF ~LastOk(l2)
                      THEN [ok |-> FALSE, value |-> elb_hosts, log |-> l2]
                      ELSE ElbLoop(regions, i + 1,
                             elb_hosts \o
                               RegionData([key |-> creds.access_key,
                                           region |-> regions[i].name]).elbs,
                             creds, l2, failAt)))

\* get_elbs_for_account after the lookup: boto.connect_ec2 and
\* get_all_regions are outside the try, what they raise reaches the caller
ElbsWith(creds, log, failAt) ==
  Bind(SdkCall("connect_ec2", creds.access_key, creds.secret_key, "", log,
               failAt),
       LAMBDA l1 :
         IF ~LastOk(l1) THEN Raise("SDKError", "connect_ec2", l1)
         ELSE
           Bind(SdkCall("get_all_regions", creds.access_key, creds.secret_key,
                        "", l1, failAt),
                LAMBDA l2 :
                  IF ~LastOk(l2) THEN Raise("SDKError", "get_all_regions", l2)
                  ELSE
                    Bind(ElbLoop(SdkRegions(creds.access_key), 1, <<>>, creds,
                                 l2, failAt),
                         LAMBDA r :
                           IF ~r.ok
                             THEN ASEException(
                                    "Cannot get ELBs for named account", r.log)
                             ELSE Ret(r.value, r.log))))

\* get_elbs_for_account: the lookup is outside the try as well
get_elbs_for_account(account_name, log, failAt) ==
  Bind(get_account_api_creds(account_name, log),
       LAMBDA c : IF c.kind = "raise" THEN c
                  ELSE ElbsWith(c.value, log, failAt))

\* a slip of the loop of get_all_elbs: a failed account is skipped (the try
\* inside the loop, with except: continue)
RECURSIVE AllElbsLoop_skip_failed(_, _, _, _, _)
AllElbsLoop_skip_failed(accounts, i, results, log, failAt) ==
  IF i > Len(accounts) THEN [ok |-> TRUE, value |-> results, log |-> log]
  ELSE Bind(get_elbs_for_account(accounts[i], log, failAt),
            LAMBDA r :
              AllElbsLoop_skip_failed(accounts, i + 1,
                IF r.kind = "raise" THEN results ELSE results \o r.value,
                MarkAccount(log, r.log, i), failAt))

\* the loop of get_all_elbs
RECURSIVE AllElbsLoop(_, _, _, _, _)
AllElbsLoop(accounts, i, results, log, failAt) ==
  IF i > Len(accounts) THEN [ok |-> TRUE, value |-> results, log |-> log]
  ELSE Bind(get_elbs_for_account(accounts[i], log, failAt),
            LAMBDA r :
              IF r.kind = "raise"
                THEN [ok |-> FALSE, value |-> results,
                      log |-> MarkAccount(log, r.log, i)]
                ELSE AllElbsLoop(accounts, i + 1, results \o r.value,
                                 MarkAccount(log, r.log, i), failAt))

\* get_all_elbs: the bare except also catches what the SDK raised
get_all_elbs(log, failAt) ==
  Bind(AllElbsLoop(AccountNames, 1, <<>>, log, failAt),
       LAMBDA r : IF ~r.ok THEN ASEException("Cannot get all ELBs", r.log)
                  ELSE Ret(r.value, r.log))

\* the loop of get_security_groups
RECURSIVE SecurityGroupsLoop(_, _, _, _, _)
SecurityGroupsLoop(ec2s, i, sgroups, log, failAt) ==
  IF i > Len(ec2s) THEN [ok |-> TRUE, value |-> sgroups, log |-> log]
  ELSE Bind(SdkCall("get_all_security_groups", ec2s[i].key, "",
                    ec2s[i].region, log, failAt),
            LAMBDA l :
              IF ~LastOk(l) THEN [ok |-> FALSE, value |-> sgroups, log |-> l]
              ELSE SecurityGroupsLoop(ec2s, i + 1,
                     sgroups \o RegionData(ec2s[i]).sgroups, l, failAt))

\* get_security_groups: __ec2_connect_all_regions is outside the try
get_security_groups(account_name, log, failAt) ==
  Bind(ec2_connect_all_regions(account_name, log, failAt),
       LAMBDA c :
         IF c.kind = "raise" THEN c
         ELSE Bind(SecurityGroupsLoop(c.value, 1, <<>>, c.log, failAt),
                   LAMBDA r :
                     IF ~r.ok
                       THEN ASEException(
                              "Cannot get security groups for named account",
                              r.log)
                       ELSE Ret(r.value, r.log)))

\* the loop of get_all_security_groups
RECURSIVE AllSecurityGroupsLoop(_, _, _, _, _)
AllSecurityGroupsLoop(accounts, i, results, log, failAt) ==
  IF i > Len(accounts) THEN [ok |-> TRUE, value |-> results, log |-> log]
  ELSE Bind(get_security_groups(accounts[i], log, failAt),
            LAMBDA r :
              IF r.kind = "raise"
                THEN [ok |-> FALSE, value |-> results,
                      log |-> MarkAccount(log, r.log, i)]
                ELSE AllSecurityGroupsLoop(accounts, i + 1, results \o r.value,
                                           MarkAccount(log, r.log, i), failAt))

\* get_all_security_groups
get_all_security_groups(log, failAt) ==
  Bind(AllSecurityGroupsLoop(AccountNames, 1, <<>>, log, failAt),
       LAMBDA r :
         IF ~r.ok THEN ASEException("Cannot get all security groups", r.log)
         ELSE Ret(r.value, r.log))

\* the loop of __get_all_instance_status
RECURSIVE InstanceStatusLoop(_, _, _, _, _)
InstanceStatusLoop(ec2s, i, i_status, log, failAt) ==
  IF i > Len(ec2s) THEN [ok |-> TRUE, value |-> i_status, log |-> log]
  ELSE Bind(SdkCall("get_all_instance_status", ec2s[i].key, "",
                    ec2s[i].region, log, failAt),
            LAMBDA l :
              IF ~LastOk(l) THEN [ok |-> FALSE, value |-> i_status, log |-> l]
              ELSE InstanceStatusLoop(ec2s, i + 1,
                     i_status \o RegionData(ec2s[i]).statuses, l, failAt))

\* __get_all_instance_status: everything is inside the try
get_all_instance_status(account_name, log, failAt) ==
  Bind(ec2_connect_all_regions(account_name, log, failAt),
       LAMBDA c :
         IF c.kind = "raise"
           THEN ASEException("Cannot obtain instance status", c.log)
           ELSE Bind(InstanceStatusLoop(c.value, 1, <<>>, c.log, failAt),
                     LAMBDA r :
                       IF ~r.ok
                         THEN ASEException("Cannot obtain instance status",
                                           r.log)
                         ELSE Ret(r.value, r.log)))

\* the value of `instance` in get_all_instance_events: the str '' or an
\* instance object
EmptyStr == [str |-> TRUE, id |-> "", tags |-> "", region |-> ""]

InstanceObj(i) == [str |-> FALSE, id |-> i.id, tags |-> i.tags, region |-> i.region]

\* the scan with a break at the first match
RECURSIVE ScanInstances_break(_, _, _, _)
ScanInstances_break(instances, j, id, instance) ==
  IF j > Len(instances) THEN instance
  ELSE IF instances[j].id = id THEN InstanceObj(instances[j])
  ELSE ScanInstances_break(instances, j + 1, id, instance)

\* for i in instances: if i.id == s.id: instance = i    (no break)
RECURSIVE ScanInstances(_, _, _, _)
ScanInstances(instances, j, id, instance) ==
  IF j > Len(instances) THEN instance
  ELSE ScanInstances(instances, j + 1, id,
         IF instances[j].id = id THEN InstanceObj(instances[j]) ELSE instance)

\* `if s.events`: None and the empty list are both false
Truthy(events) == ~events.none /\ Len(events.list) > 0

\* the dict appended to non_ok
EventRecord(s, event, instance, account_name) ==
  [instance_id |-> s.id,
   completed   |-> Contains(CompletedMarker, event.description),
   event_code  |-> event.code,
   descript    |-> event.description,
   time_nb4    |-> event.not_before,
   time_nafter |-> event.not_after,
   tags        |-> instance.tags,
   account     |-> account_name,
   region      |-> instance.region]

\* for event in s.events: a str has no attribute tags (AttributeError)
RECURSIVE EventsLoop(_, _, _, _, _)
EventsLoop(s, k, instances, account_name, non_ok) ==
  IF k > Len(s.events.list) THEN [ok |-> TRUE, value |-> non_ok]
  ELSE Bind(ScanInstances(instances, 1, s.id, EmptyStr),
            LAMBDA instance :
              IF instance.str THEN [ok |-> FALSE, value |-> non_ok]
              ELSE EventsLoop(s, k + 1, instances, account_name,
                     Append(non_ok,
                            EventRecord(s, s.events.list[k], instance,
                                        account_name))))

\* for s in status_list
RECURSIVE StatusLoop(_, _, _, _, _)
StatusLoop(status_list, i, instances, account_name, non_ok) ==
  IF i > Len(status_list) THEN [ok |-> TRUE, value |-> non_ok]
  ELSE IF ~Truthy(status_list[i].events)
    THEN StatusLoop(status_list, i + 1, instances, account_name, non_ok)
  ELSE Bind(EventsLoop(status_list[i], 1, instances, account_name, non_ok),
            LAMBDA r :
              IF ~r.ok THEN r
              ELSE StatusLoop(status_list, i + 1, instances, account_name,
                              r.value))

\* get_all_instance_events: the two fetches are outside the try
get_all_instance_events(account_name, log, failAt) ==
  Bind(get_all_instance_status(account_name, log, failAt),
       LAMBDA st :
         IF st.kind = "raise" THEN st
         ELSE
           Bind(get_instances_for_account(account_name, st.log, failAt),
                LAMBDA ins :
                  IF ins.kind = "raise" THEN ins
                  ELSE
                    Bind(StatusLoop(st.value, 1, ins.value, account_name, <<>>),
                         LAMBDA r :
                           IF ~r.ok
                             THEN ASEException(
                                    "Cannot get instance maintenance events",
                                    ins.log)
                             ELSE Ret(r.value, ins.log))))

(* ------------------------- inputs of the model ------------------------- *)
Keys == {"K1", "K2"}

Credentials == {[key |-> "K1", secret |-> "S1"], [key |-> "K2", secret |-> "S2"]}

\* account names, as configured and as passed by callers
InputNames == {<<"a", "b">>, <<"A", "b">>, <<"A", "B">>, <<"c", "d">>, <<"e", "f">>}

ConfigNames == {<<"a", "b">>, <<"A", "b">>, <<"c", "d">>}

RegionNames == <<"us-east-1", "us-west-2", "eu-west-1", "ap-south-1">>

Inst(id, tags) == [id |-> id, tags |-> tags]

Event(code, description) ==
  [code |-> code, description |-> description, not_before |-> "t1",
   not_after |-> "t2"]

NoEvents == [none |-> TRUE, list |-> <<>>]

Events(list) == [none |-> FALSE, list |-> list]

Descriptions ==
  [done    |-> CompletedMarker \o <<" ", "r">>,
   later   |-> <<"r", " ">> \o CompletedMarker,
   cut     |-> <<"[", "C", "o", "m", "p", "l", "e", "t", "e", "d">>,
   lower   |-> <<"[", "c", "o", "m", "p", "l", "e", "t", "e", "d", "]">>,
   pending |-> <<"r">>]

EvDone == Event("system-reboot", Descriptions.done)
EvLater == Event("instance-stop", Descriptions.later)
EvCut == Event("system-reboot", Descriptions.cut)
EvLower == Event("instance-retirement", Descriptions.lower)
EvPending == Event("system-maintenance", Descriptions.pending)

\* what one region may hold when the resource lists are what varies
FanoutData ==
  {[reservations |-> <<<<Inst("i-1", "web"), Inst("i-2", "db")>>,
                       <<Inst("i-3", "web")>>>>,
    statuses |-> <<>>, elbs |-> <<"lb-1", "lb-2">>, sgroups |-> <<"sg-1">>],
   [reservations |-> <<<<Inst("i-4", "db")>>>>,
    statuses |-> <<>>, elbs |-> <<"lb-3">>, sgroups |-> <<"sg-2", "sg-3">>]}

\* what one region may hold when instances and their status are what varies
EventReservations ==
  {<<>>,
   <<<<Inst("i-1", "web")>>>>,
   <<<<Inst("i-1", "web"), Inst("i-2", "db")>>, <<Inst("i-1", "old")>>>>}

EventStatuses ==
  {<<[id |-> "i-1", events |-> NoEvents], [id |-> "i-2", events |-> Events(<<EvDone>>)]>>,
   <<[id |-> "i-1", events |-> Events(<<EvLater, EvPending>>)]>>,
   <<[id |-> "i-1", events |-> Events(<<>>)],
     [id |-> "i-1", events |-> Events(<<EvCut>>)],
     [id |-> "i-2", events |-> Events(<<EvLower, EvDone>>)]>>}

EventData ==
  {[reservations |-> r, statuses |-> s, elbs |-> <<>>, sgroups |-> <<>>] :
     r \in EventReservations, s \in EventStatuses}

\* sequences of length n over S
SeqsOfLen(S, n) == [1..n -> S]

\* the regions of one account: the first n region names, each with its data
RegionsOver(D, n) ==
  {[i \in 1..n |-> [name |-> RegionNames[i],
                    reservations |-> d[i].reservations,
                    statuses |-> d[i].statuses,
                    elbs |-> d[i].elbs, sgroups |-> d[i].sgroups]] :
     d \in SeqsOfLen(D, n)}

Account(name, c) == [name |-> name, key |-> c.key, secret |-> c.secret]

FixedData ==
  [reservations |-> <<<<Inst("i-4", "db")>>>>,
   statuses |-> <<>>, elbs |-> <<"lb-3">>, sgroups |-> <<"sg-2", "sg-3">>]

\* configurations with names in any case, any credentials, duplicates too
InitLookup ==
  /\ \E n \in 0..MaxAccounts :
       config \in SeqsOfLen({Account(nm, c) : nm \in ConfigNames, c \in Credentials}, n)
  /\ cloud \in {[k \in Keys |-> r] : r \in RegionsOver({FixedData}, 1)}

\* lower-case accounts over clouds whose regions and resource lists vary
InitFanout ==
  /\ \E n \in 0..MaxAccounts :
       config \in SeqsOfLen({Account(<<"a", "b">>, [key |-> "K1", secret |-> "S1"]),
                             Account(<<"c", "d">>, [key |-> "K2", secret |-> "S2"])}, n)
  /\ \E n1, n2 \in 0..MaxRegions :
       \E r1 \in RegionsOver(FanoutData, n1), r2 \in RegionsOver(FanoutData, n2) :
         cloud = [k \in Keys |-> IF k = "K1" THEN r1 ELSE r2]

\* one account whose instances and instance status vary
InitEvents ==
  /\ config = <<Account(<<"a", "b">>, [key |-> "K1", secret |-> "S1"])>>
  /\ \E n1 \in 1..MaxRegions :
       \E r1 \in RegionsOver(EventData, n1) :
         cloud = [k \in Keys |-> IF k = "K1" THEN r1 ELSE <<>>]

NoOutcome == [kind |-> "none", value |-> <<>>, exc |-> "", msg |-> ""]

Init ==
  /\ (InitLookup \/ InitFanout \/ InitEvents)
  /\ op = "none"
  /\ arg = <<>>
  /\ outcome = NoOutcome
  /\ calls = <<>>

(* ------------------------------ actions -------------------------------- *)
\* Calls are synchronous and sequential: a method is called when no other is
\* running.  What the caller gets, and the SDK calls the method issued:
Finish(name, a, r) ==
  /\ op' = name
  /\ arg' = a
  /\ outcome' = [kind |-> r.kind, value |-> r.value, exc |-> r.exc, msg |-> r.msg]
  /\ calls' = r.log
  /\ UNCHANGED <<config, cloud>>

GetAllAwsAccounts ==
  /\ op = "none"
  /\ Finish("get_all_aws_accounts", <<>>, Ret(get_all_aws_accounts, <<>>))

GetAccountApiCreds ==
  /\ op = "none"
  /\ \E name \in InputNames :
       Finish("get_account_api_creds", name, get_account_api_creds(name, <<>>))

GetInstancesForAccount ==
  /\ op = "none"
  /\ \E name \in InputNames :
       \E failAt \in 0..Len(get_instances_for_account(name, <<>>, 0).log) :
         Finish("get_instances_for_account", name,
                get_instances_for_account(name, <<>>, failAt))

GetAllInstances ==
  /\ op = "none"
  /\ \E failAt \in 0..Len(get_all_instances(<<>>, 0).log) :
       Finish("get_all_instances", <<>>, get_all_instances(<<>>, failAt))

GetElbsForAccount ==
  /\ op = "none"
  /\ \E name \in InputNames :
       \E failAt \in 0..Len(get_elbs_for_account(name, <<>>, 0).log) :
         Finish("get_elbs_for_account", name,
                get_elbs_for_account(name, <<>>, failAt))

GetAllElbs ==
  /\ op = "none"
  /\ \E failAt \in 0..Len(get_all_elbs(<<>>, 0).log) :
       Finish("get_all_elbs", <<>>, get_all_elbs(<<>>, failAt))

GetAllInstanceEvents ==
  /\ op = "none"
  /\ \E name \in InputNames :
       \E failAt \in 0..Len(get_all_instance_events(name, <<>>, 0).log) :
         Finish("get_all_instance_events", name,
                get_all_instance_events(name, <<>>, failAt))

GetSecurityGroups ==
  /\ op = "none"
  /\ \E name \in InputNames :
       \E failAt \in 0..Len(get_security_groups(name, <<>>, 0).log) :
         Finish("get_security_groups", name,
                get_security_groups(name, <<>>, failAt))

GetAllSecurityGroups ==
  /\ op = "none"
  /\ \E failAt \in 0..Len(get_all_security_groups(<<>>, 0).log) :
       Finish("get_all_security_groups", <<>>, get_all_security_groups(<<>>, failAt))

\* The caller is done with the result: nothing of a call outlives it (no
\* cache, no connection kept), the enumerator is ready for the next call.
Discard ==
  /\ op # "none"
  /\ op' = "none"
  /\ arg' = <<>>
  /\ outcome' = NoOutcome
  /\ calls' = <<>>
  /\ UNCHANGED <<config, cloud>>

Next ==
  \/ GetAllAwsAccounts
  \/ GetAccountApiCreds
  \/ GetInstancesForAccount
  \/ GetAllInstances
  \/ GetElbsForAccount
  \/ GetAllElbs
  \/ GetAllInstanceEvents
  \/ GetSecurityGroups
  \/ GetAllSecurityGroups
  \/ Discard

Spec == Init /\ [][Next]_vars


(* ------------------- vocabulary of the properties ---------------------- *)
PerAccountOps ==
  {"get_instances_for_account", "get_elbs_for_account", "get_security_groups",
   "get_all_instance_events"}

AllAccountsOps == {"get_all_instances", "get_all_elbs", "get_all_security_groups"}

\* two characters equal up to letter case
SameLetter(c, d) ==
  c = d \/ \E i \in 1..Len(UpperChars) : {c, d} = {UpperChars[i], LowerChars[i]}

\* two names that differ at most in letter case
SameIgnoringCase(a, b) ==
  Len(a) = Len(b) /\ \A i \in 1..Len(a) : SameLetter(a[i], b[i])

\* the configured entries whose name matches a name case-insensitively
Matching(name) == {i \in 1..Len(config) : SameIgnoringCase(config[i].name, name)}

\* concatenation of a sequence of sequences
RECURSIVE Cat(_)
Cat(ss) == IF ss = <<>> THEN <<>> ELSE Head(ss) \o Cat(Tail(ss))

\* the instances a region holds: reservation order, then instance order
InstancesOfRegion(r) ==
  Cat([j \in 1..Len(r.reservations) |->
        [m \in 1..Len(r.reservations[j]) |->
          [id |-> r.reservations[j][m].id, tags |-> r.reservations[j][m].tags,
           region |-> r.name]]])

\* the instances behind an access key, in region order
InstancesOfKey(k) ==
  Cat([i \in 1..Len(cloud[k]) |-> InstancesOfRegion(cloud[k][i])])

\* the status entries behind an access key, in region order
StatusesOfKey(k) == Cat([i \in 1..Len(cloud[k]) |-> cloud[k][i].statuses])

\* the access key the lookup of a name yields
KeyOf(name) == get_account_api_creds(name, <<>>).value.access_key

Resolves(name) == get_account_api_creds(name, <<>>).kind = "return"

AllCallsOk == \A j \in 1..Len(calls) : calls[j].ok

(* ------------------------------- C1 ------------------------------------ *)
\* C1 (as claimed): whenever the name passed to get_account_api_creds differs
\* at most in letter case from the name of a configured entry, whatever the
\* case of the configured name, the lookup returns, and returns the key and
\* the secret of such an entry.
C1_LookupIgnoresCase ==
  (op = "get_account_api_creds" /\ Matching(arg) # {})
    => /\ outcome.kind = "return"
       /\ \E i \in Matching(arg) :
            outcome.value = [access_key |-> config[i].key,
                             secret_key |-> config[i].secret]

(* ------------------------------- C2 ------------------------------------ *)
\* C2: when no configured name matches the name passed, not even up to
\* letter case, get_account_api_creds and every per-account listing method
\* raise ASEException and have issued no SDK call at all.
C2_NoMatchNoSdkCall ==
  (op \in PerAccountOps \cup {"get_account_api_creds"} /\ Matching(arg) = {})
    => /\ outcome.kind = "raise"
       /\ outcome.exc = "ASEException"
       /\ calls = <<>>

\* a listing method was called with a name no entry of a non-empty
\* configuration matches, in an account-bearing cloud
C2_Witness ==
  /\ op \in PerAccountOps
  /\ Len(config) > 0
  /\ Matching(arg) = {}
  /\ \A k \in Keys : Len(cloud[k]) > 0
  /\ outcome.kind = "raise"

(* ------------------------------- C3 ------------------------------------ *)
\* C3: when get_all_instances returns, its value is the concatenation, in
\* configuration order, of what get_instances_for_account returns for each
\* configured name, and that is every instance of each account in region
\* order, then reservation order, then instance order; and it does return
\* when no SDK call fails and every per-account call succeeds.
C3_AllInstancesIsConcatenation ==
  op = "get_all_instances" =>
    /\ outcome.kind = "return" =>
         /\ outcome.value =
              Cat([a \in 1..Len(config) |->
                    get_instances_for_account(config[a].name, <<>>, 0).value])
         /\ outcome.value =
              Cat([a \in 1..Len(config) |-> InstancesOfKey(KeyOf(config[a].name))])
    /\ (AllCallsOk /\ \A a \in 1..Len(config) : Resolves(config[a].name))
         => outcome.kind = "return"

\* two accounts with different keys, both with instances, the first with
\* instances in two regions
C3_Witness ==
  /\ op = "get_all_instances"
  /\ outcome.kind = "return"
  /\ Len(config) = 2
  /\ config[1].key # config[2].key
  /\ Len(cloud[config[1].key]) = 2
  /\ \A i \in 1..2 : Len(cloud[config[1].key][i].reservations) > 0
  /\ InstancesOfKey(config[2].key) # <<>>
  /\ InstancesOfKey(config[1].key) # InstancesOfKey(config[2].key)

(* ------------------------------- C4 ------------------------------------ *)
\* C4: when the listing call of a region fails in get_instances_for_account,
\* the method raises ASEException and no list reaches the caller, whatever
\* earlier regions had delivered.
C4_NoPartialList ==
  (/\ op = "get_instances_for_account"
   /\ \E j \in 1..Len(calls) :
        calls[j].api = "get_all_reservations" /\ ~calls[j].ok)
    => /\ outcome.kind = "raise"
       /\ outcome.exc = "ASEException"
       /\ outcome.value = <<>>

\* the listing of a later region failed after a region with instances
\* had been listed
C4_Witness ==
  /\ op = "get_instances_for_account"
  /\ outcome.kind = "raise"
  /\ \E j \in 2..Len(calls) :
       /\ calls[j].api = "get_all_reservations" /\ ~calls[j].ok
       /\ calls[j - 1].api = "get_all_reservations" /\ calls[j - 1].ok
       /\ \E i \in 1..Len(cloud[calls[j - 1].key]) :
            /\ cloud[calls[j - 1].key][i].name = calls[j - 1].region
            /\ cloud[calls[j - 1].key][i].reservations # <<>>

(* ------------------------------- C5 ------------------------------------ *)
\* the accounts whose enumeration failed: an SDK call of theirs failed, or
\* their name does not resolve
FailedAccounts ==
  {calls[j].acct : j \in {n \in 1..Len(calls) : ~calls[n].ok}}
    \cup {i \in 1..Len(config) : ~Resolves(config[i].name)}

FirstFailedAccount ==
  CHOOSE i \in FailedAccounts : \A k \in FailedAccounts : i <= k

\* C5: in every all-accounts method, once the enumeration of an account
\* fails the call raises ASEException, returns nothing of what earlier
\* accounts delivered, and has issued no SDK call after the failing one nor
\* any SDK call for a later account.
C5_AbortAtFirstFailedAccount ==
  (op \in AllAccountsOps /\ FailedAccounts # {})
    => /\ outcome.kind = "raise"
       /\ outcome.exc = "ASEException"
       /\ outcome.value = <<>>
       /\ \A j \in 1..Len(calls) :
            /\ calls[j].acct <= FirstFailedAccount
            /\ ~calls[j].ok => j = Len(calls)

\* the first of two accounts failed in an SDK call after delivering
\* nothing yet, or after some region; the second account has regions
C5_Witness ==
  /\ op \in AllAccountsOps
  /\ Len(config) = 2
  /\ config[1].key # config[2].key
  /\ Len(cloud[config[2].key]) > 0
  /\ calls # <<>>
  /\ ~calls[Len(calls)].ok
  /\ calls[Len(calls)].acct = 1
  /\ outcome.kind = "raise"

(* ------------------------------- C6 ------------------------------------ *)
\* C6 (as claimed): whichever SDK call fails during get_elbs_for_account
\* (the default connection, the enumeration of regions, a region connection
\* or a listing), the method raises ASEException, and it never raises
\* anything else.
C6_ElbsRaiseOnlyDomainError ==
  op = "get_elbs_for_account" =>
    /\ ~AllCallsOk => outcome.kind = "raise"
    /\ outcome.kind = "raise" => outcome.exc = "ASEException"

(* ------------------------------- C7 ------------------------------------ *)
\* the (status entry, event) pairs of an account, in status-entry order and
\* then event order; entries without events (None or empty) give none
EventPairs(k) ==
  LET st == StatusesOfKey(k)
  IN Cat([i \in 1..Len(st) |->
           IF st[i].events.none THEN <<>>
           ELSE [e \in 1..Len(st[i].events.list) |->
                  [entry |-> i, id |-> st[i].id, event |-> st[i].events.list[e]]]])

\* the literal [Completed] stands at position i of d
MarkerAt(d, i) ==
  \A k \in 1..Len(CompletedMarker) :
    i + k - 1 <= Len(d) /\ d[i + k - 1] = CompletedMarker[k]

HasMarker(d) == \E i \in 1..Len(d) : MarkerAt(d, i)

\* C7: when get_all_instance_events returns, its value has exactly one
\* record per (status entry, event) pair, in status-entry order then event
\* order; a record carries the entry's id, the event's code, description
\* and times, the account name passed, and completed = TRUE iff the
\* description contains [Completed]; records of one entry share tags and
\* region.
C7_OneRecordPerEvent ==
  (op = "get_all_instance_events" /\ outcome.kind = "return") =>
    LET pairs == EventPairs(KeyOf(arg))
        v == outcome.value
    IN /\ Len(v) = Len(pairs)
       /\ \A n \in 1..Len(v) :
            /\ v[n].instance_id = pairs[n].id
            /\ v[n].event_code = pairs[n].event.code
            /\ v[n].descript = pairs[n].event.description
            /\ v[n].time_nb4 = pairs[n].event.not_before
            /\ v[n].time_nafter = pairs[n].event.not_after
            /\ v[n].account = arg
            /\ v[n].completed = HasMarker(pairs[n].event.description)
       /\ \A n, m \in 1..Len(v) :
            pairs[n].entry = pairs[m].entry =>
              v[n].tags = v[m].tags /\ v[n].region = v[m].region

\* a return with two records of one entry, a completed and a pending
\* record, and a record whose marker is not at the start of the description
C7_Witness ==
  /\ op = "get_all_instance_events"
  /\ outcome.kind = "return"
  /\ \E n, m \in 1..Len(outcome.value) :
       /\ n # m
       /\ EventPairs(KeyOf(arg))[n].entry = EventPairs(KeyOf(arg))[m].entry
       /\ outcome.value[n].completed
       /\ ~outcome.value[m].completed
       /\ ~MarkerAt(outcome.value[n].descript, 1)
  /\ \E i \in 1..Len(StatusesOfKey(KeyOf(arg))) :
       ~Truthy(StatusesOfKey(KeyOf(arg))[i].events)

(* ------------------------------- C8 ------------------------------------ *)
\* the pairs whose entry has no instance of the same id in the account
Unmatched(k) ==
  {n \in 1..Len(EventPairs(k)) :
     \A j \in 1..Len(InstancesOfKey(k)) :
       InstancesOfKey(k)[j].id # EventPairs(k)[n].id}

\* C8 (as claimed): when the name resolves, no SDK call fails and some
\* status entry with events has no instance of the same id, the method
\* still returns, with a record for each event of such an entry whose tags
\* are empty.
C8_UnmatchedEntryStillReturned ==
  (/\ op = "get_all_instance_events"
   /\ Resolves(arg)
   /\ AllCallsOk
   /\ Unmatched(KeyOf(arg)) # {})
    => /\ outcome.kind = "return"
       /\ Len(outcome.value) = Len(EventPairs(KeyOf(arg)))
       /\ \A n \in Unmatched(KeyOf(arg)) : outcome.value[n].tags = ""

(* ------------------------------- C9 ------------------------------------ *)
\* the message each per-account method raises for its own failures
OperationMessage ==
  [o \in PerAccountOps |->
     CASE o = "get_instances_for_account" -> "Cannot get instances for named account"
       [] o = "get_elbs_for_account" -> "Cannot get ELBs for named account"
       [] o = "get_security_groups" -> "Cannot get security groups for named account"
       [] o = "get_all_instance_events" -> "Cannot get instance maintenance events"]

\* C9 (as claimed): what a per-account listing method raises is
\* ASEException with the one message of that method, whichever step failed
\* (lookup, connection, listing).
C9_OneMessagePerOperation ==
  (op \in PerAccountOps /\ outcome.kind = "raise")
    => outcome.exc = "ASEException" /\ outcome.msg = OperationMessage[op]

(* ------------------------------- C10 ----------------------------------- *)
\* the positions, in the instance list of the account, of the instances
\* with a given id
PositionsOf(k, id) ==
  {j \in 1..Len(InstancesOfKey(k)) : InstancesOfKey(k)[j].id = id}

FirstOf(S) == CHOOSE i \in S : \A j \in S : i <= j

LastOf(S) == CHOOSE i \in S : \A j \in S : i >= j

\* C10 (as claimed): the tags and region of every record come from the
\* FIRST instance of the instance list whose id equals the entry's id.
C10_TagsFromFirstMatch ==
  (op = "get_all_instance_events" /\ outcome.kind = "return") =>
    \A n \in 1..Len(outcome.value) :
      LET k == KeyOf(arg)
          i == InstancesOfKey(k)[FirstOf(PositionsOf(k, outcome.value[n].instance_id))]
      IN outcome.value[n].tags = i.tags /\ outcome.value[n].region = i.region

\* C10 (amended): the tags and region of every record come from the LAST
\* instance of the instance list whose id equals the entry's id (the scan
\* does not stop at the first match).
C10_TagsFromLastMatch ==
  (op = "get_all_instance_events" /\ outcome.kind = "return") =>
    \A n \in 1..Len(outcome.value) :
      LET k == KeyOf(arg)
          i == InstancesOfKey(k)[LastOf(PositionsOf(k, outcome.value[n].instance_id))]
      IN outcome.value[n].tags = i.tags /\ outcome.value[n].region = i.region

\* a record whose id several instances carry, the first and the last of
\* them with different tags
C10_Witness ==
  /\ op = "get_all_instance_events"
  /\ outcome.kind = "return"
  /\ \E n \in 1..Len(outcome.value) :
       LET k == KeyOf(arg)
           P == PositionsOf(k, outcome.value[n].instance_id)
       IN /\ Cardinality(P) >= 2
          /\ InstancesOfKey(k)[FirstOf(P)].tags # InstancesOfKey(k)[LastOf(P)].tags

====
